---------------------------- MODULE Spec2Model ----------------------------
(***************************************************************************)
(* The client side of the streaming turn protocol of the worldbuilding     *)
(* chat interface: the useChat hook (frontend/src/hooks/useChat.ts), the   *)
(* SSE reader ApiService.sendMessageStream (frontend/src/services/api.ts)  *)
(* and the ChatInput guard (frontend/src/components/Chat/ChatInput.tsx).   *)
(*                                                                         *)
(* Conventions.                                                            *)
(*  - A JavaScript string is a sequence of characters; the characters are  *)
(*    one-letter TLA+ strings.  Error messages are kept as TLA+ strings,   *)
(*    they are only stored and shown.                                      *)
(*  - An optional value (a field that may be undefined, or null) is a      *)
(*    sequence of length 0 (None) or 1 (Some(v)).                          *)
(*  - isStreaming / isThinking are read for their truthiness only, so an   *)
(*    undefined flag is FALSE.                                             *)
(*  - Message ids are numbers: Date.now().toString() is injective and      *)
(*    never 'welcome', which is id 0.                                      *)
(*  - A setState(prev => ...) updater is applied, in call order, when it   *)
(*    is called.                                                           *)
(***************************************************************************)
EXTENDS Naturals, Sequences, FiniteSets

\* ------------------------------------------------------------------ bounds
MaxTurns == 2        \* Spec: sendMessage calls in one behaviour
MaxEvents == 2       \* Spec: lines the server writes, over all turns
MaxTurnEvents == 3
MaxToolUses == 2   \* SpecTurn: lines the server writes in the one turn

\* ------------------------------------------------------------- vocabulary
None == << >>
Some(v) == << v >>
IsSome(o) == Len(o) = 1
Get(o) == o[1]

Str(c) == << c >>          \* the one-character string c
EmptyStr == << >>
SP == " "

WelcomeId == 0
WelcomeContent == << "w" >>

Min(S) == CHOOSE x \in S : \A y \in S : x <= y
Max(S) == CHOOSE x \in S : \A y \in S : x >= y

\* String.prototype.trim
Trim(s) ==
    LET idx == { i \in 1..Len(s) : s[i] # SP }
    IN  IF idx = {} THEN EmptyStr ELSE SubSeq(s, Min(idx), Max(idx))

IsPrefix(s, t) == Len(s) <= Len(t) /\ SubSeq(t, 1, Len(s)) = s

Front(s) == SubSeq(s, 1, Len(s) - 1)

\* a ContentBlock; the client reads only `text`, the other fields travel along
Block(type, text, id, tool_use_id) ==
    [type |-> type, text |-> text, id |-> id, tool_use_id |-> tool_use_id]
TextBlock(s) == Block("text", Some(s), 0, 0)
ThinkingBlock == Block("thinking", None, 0, 0)
ToolUse(i) == Block("tool_use", None, i, 0)
ToolResult(i) == Block("tool_result", None, 0, i)

\* the content of a history entry: string | ContentBlock[]
StringContent(s) == [kind |-> "string", str |-> s, blocks |-> << >>]
BlocksContent(bs) == [kind |-> "blocks", str |-> EmptyStr, blocks |-> bs]

\* ------------------------------------------------------------------ state
VARIABLES
    messages, isLoading, error,          \* ChatState
    now,                                 \* the last value Date.now() returned
    pc,                                  \* where the current sendMessage call is
    outcome,                             \* how the last sendMessage call left its try block
    turnsLeft,                           \* sendMessage calls the behaviour may still make
    request,                             \* the request body of the current call
    requests,                            \* requests issued so far
    assistantMessageId, streamedContent, thinkingContent,
    toolCalls, filesCreated, contentBlocks,   \* locals of the streaming branch
    wire,                                \* lines written by the server, not read yet
    srvClosed,                           \* the server closed the response body
    lines,                               \* lines of the current read still to be looked at
    log,                                 \* the chunks yielded to the for-await loop this turn
    sent,                                \* the chunks the server wrote as event lines this turn
    eventsLeft,                          \* lines the server may still write, and cuts of a line by a read
    exec                                 \* the Turn Executor of one turn (server side)

chat == << messages, isLoading, error >>
locals == << assistantMessageId, streamedContent, thinkingContent,
             toolCalls, filesCreated, contentBlocks >>
transport == << wire, srvClosed, lines, sent, eventsLeft >>
vars == << messages, isLoading, error, now, pc, outcome, turnsLeft, exec, request, requests,
           assistantMessageId, streamedContent, thinkingContent,
           toolCalls, filesCreated, contentBlocks,
           wire, srvClosed, lines, log, sent, eventsLeft, exec >>

\* ------------------------------------------------------------ input sets
Texts == { << SP, "a" >>, Str(SP) }     \* what the user may type
Deltas == { Str("a"), Str(SP) }         \* chunk.content of a delta
Elapsed == { 0, 1 }                     \* milliseconds between two clock readings

ToolsPayloads ==
    { [tool_calls |-> None, files_created |-> None, content_blocks |-> None],
      [tool_calls |-> Some(<< "instantiate_world" >>), files_created |-> Some(<< "f1" >>),
       content_blocks |-> Some(<< ThinkingBlock, ToolUse(1), ToolResult(1), TextBlock(Str("a")) >>)],
      [tool_calls |-> Some(<< >>), files_created |-> None,
       content_blocks |-> Some(<< ToolResult(9), TextBlock(Str(SP)) >>)] }

ErrorFields == { None, Some("tool loop exceeded") }   \* chunk.error

\* a StreamChunk (api.ts StreamChunk); unused fields are None
Chunk(type, content, payload, err) ==
    [type |-> type, content |-> content,
     tool_calls |-> payload.tool_calls, files_created |-> payload.files_created,
     content_blocks |-> payload.content_blocks, error |-> err]
NoPayload == [tool_calls |-> None, files_created |-> None, content_blocks |-> None]

Chunks ==
    { Chunk("thinking", Some(d), NoPayload, None) : d \in Deltas } \cup
    { Chunk("content", Some(d), NoPayload, None) : d \in Deltas } \cup
    { Chunk("tools", None, p, None) : p \in ToolsPayloads } \cup
    { Chunk("error", None, NoPayload, e) : e \in ErrorFields } \cup
    { Chunk("end", None, NoPayload, None) }

\* a line of the response body: a `data: <json>` line, a `data: ` line whose
\* rest is not JSON, or a line without the prefix (the blank separator lines)
DataLine(c) == [kind |-> "data", chunk |-> c]
BadLine == [kind |-> "bad", chunk |-> Chunk("end", None, NoPayload, None)]
OtherLine == [kind |-> "other", chunk |-> Chunk("end", None, NoPayload, None)]
Lines == { DataLine(c) : c \in Chunks } \cup { BadLine, OtherLine }

\* the lines of the several-turn specification: one delta text, a tools event
\* with and without a text block, an error, end, and the two skipped kinds
CoreChunks ==
    { c \in Chunks :
        /\ c.type \in {"thinking", "content"} => c.content = Some(Str("a"))
        /\ c.type = "tools" => IsSome(c.content_blocks)
        /\ c.type = "error" => IsSome(c.error) }
CoreLines == { DataLine(c) : c \in CoreChunks } \cup { BadLine, OtherLine }

\* --------------------------------------------------------------- messages
Message(id, content, role, timestamp, thinking, isStreaming, isThinking, tool_calls, files_created, content_blocks) ==
    [id |-> id, content |-> content, role |-> role, timestamp |-> timestamp,
     thinking |-> thinking, isStreaming |-> isStreaming, isThinking |-> isThinking,
     tool_calls |-> tool_calls, files_created |-> files_created,
     content_blocks |-> content_blocks]

\* useChat.ts INITIAL_STATE: the welcome message, read at clock value t
INITIAL_STATE(t) ==
    [messages |-> << Message(WelcomeId, WelcomeContent, "assistant", t, None,
                             FALSE, FALSE, None, None, None) >>,
     isLoading |-> FALSE,
     error |-> None]

\* ---------------------------------------------------- History Reconciler
\* msg.content_blocks || (typeof msg.content === 'string' ? msg.content : ...):
\* an array is truthy, the empty one too; msg.content is always a string here
ResolveContent(msg) ==
    IF IsSome(msg.content_blocks)
    THEN BlocksContent(Get(msg.content_blocks))
    ELSE StringContent(msg.content)

\* block.text && block.text.trim().length > 0
BlockHasText(block) ==
    /\ IsSome(block.text)
    /\ Get(block.text) # EmptyStr
    /\ Len(Trim(Get(block.text))) > 0

\* (variant: the last filter keeps every entry)
NonEmptyContentKeepsAll(entry) == TRUE

\* (variant: a block list counts as content as soon as it has a block)
NonEmptyContentByLength(entry) ==
    IF entry.content.kind = "string"
    THEN Len(Trim(entry.content.str)) > 0
    ELSE Len(entry.content.blocks) > 0

\* the last filter of the pipeline: only entries with non-empty content
NonEmptyContent(entry) ==
    IF entry.content.kind = "string"
    THEN Len(Trim(entry.content.str)) > 0
    ELSE /\ Len(entry.content.blocks) > 0
         /\ \E i \in 1..Len(entry.content.blocks) : BlockHasText(entry.content.blocks[i])

\* (variant: messages that are still streaming are kept)
NotStreamingKeepsAll(msg) == TRUE
\* (variant: every entry is sent with the user role)
HistoryEntryAsUser(msg) == [role |-> "user", content |-> ResolveContent(msg)]

NotWelcome(msg) == msg.id # WelcomeId
NotStreaming(msg) == ~msg.isStreaming
\* (variant: no slice, the last element stays)
DropCurrentKeepsAll(msgs) == msgs
DropCurrent(msgs) == SubSeq(msgs, 1, Len(msgs) - 1)        \* .slice(0, -1)
HistoryEntry(msg) == [role |-> msg.role, content |-> ResolveContent(msg)]

\* the conversationHistory computed in sendMessage's first setState
conversationHistory(newMessages) ==
    LET kept == DropCurrent(SelectSeq(SelectSeq(newMessages, NotWelcome), NotStreaming))
        mapped == [i \in 1..Len(kept) |-> HistoryEntry(kept[i])]
    IN  SelectSeq(mapped, NonEmptyContent)

\* ------------------------------------------------ Turn Executor: vocabulary
\* The Turn Executor runs on the server and its code is not part of the
\* client sources; it is modelled from its contract (spec section 4.1).
\* a ContentBlock of the turn the executor builds
ExecBlock(type, id, is_error, content) ==
    [type |-> type, id |-> id, is_error |-> is_error, content |-> content]
\* a StreamEvent the executor emits
ExecEvent(type, reason) == [type |-> type, reason |-> reason]

LoopExceeded == "tool loop exceeded"
LlmFailed == "LLM transport failure"

\* what the Tool Bridge returns: { ok: true, output } | { ok: false, error }
BridgeResults == { [ok |-> TRUE, text |-> "done"], [ok |-> FALSE, text |-> "disk full"] }

\* the executor before a turn: no round submitted, nothing emitted
ExecIdle ==
    [pc |-> "idle", round |-> 0, blocks |-> << >>, emitted |-> << >>,
     pending |-> << >>, failed |-> {}]

\* ------------------------------------------------------------------ Init
Init ==
    /\ now = 1
    /\ messages = INITIAL_STATE(1).messages
    /\ isLoading = INITIAL_STATE(1).isLoading
    /\ error = INITIAL_STATE(1).error
    /\ pc = "idle"
    /\ outcome = "none"
    /\ turnsLeft = MaxTurns
    /\ request = [content |-> EmptyStr, conversation_history |-> << >>, stream |-> FALSE]
    /\ requests = 0
    /\ assistantMessageId = 0
    /\ streamedContent = EmptyStr
    /\ thinkingContent = EmptyStr
    /\ toolCalls = << >>
    /\ filesCreated = << >>
    /\ contentBlocks = << >>
    /\ wire = << >>
    /\ srvClosed = FALSE
    /\ lines = << >>
    /\ log = << >>
    /\ sent = << >>
    /\ eventsLeft = MaxEvents
    /\ exec = ExecIdle

\* ------------------------------------------------------------ sendMessage
\* (variant: the first setState leaves the error of the last turn in place)
sendMessageKeepsError(content, useStreaming, t0, t1) ==
    LET userMessage == Message(t0, content, "user", t0, None, FALSE, FALSE, None, None, None)
        newMessages == Append(messages, userMessage)
        history == conversationHistory(newMessages)
        placeholder == Message(t1 + 1, EmptyStr, "assistant", t1, Some(EmptyStr),
                               TRUE, FALSE, None, None, None)
    IN  /\ isLoading' = TRUE
        /\ error' = error
        /\ turnsLeft' = turnsLeft - 1
        /\ request' = [content |-> content, conversation_history |-> history,
                       stream |-> useStreaming]
        /\ requests' = requests + 1
        /\ outcome' = "none"
        /\ log' = << >>
        /\ sent' = << >>
        /\ wire' = << >>
        /\ srvClosed' = FALSE
        /\ lines' = << >>
        /\ UNCHANGED << eventsLeft, exec >>
        /\ IF useStreaming
           THEN /\ messages' = Append(newMessages, placeholder)
                /\ now' = t1
                /\ assistantMessageId' = t1 + 1
                /\ streamedContent' = EmptyStr
                /\ thinkingContent' = EmptyStr
                /\ toolCalls' = << >>
                /\ filesCreated' = << >>
                /\ contentBlocks' = << >>
                /\ pc' = "fetch"
           ELSE /\ messages' = newMessages
                /\ now' = t0
                /\ UNCHANGED locals
                /\ pc' = "send"

\* The synchronous part of sendMessage(content, useStreaming): the user
\* message, the first setState with the history, and in streaming mode the
\* placeholder and the start of the request.  t0 and t1 are the clock
\* readings taken for the user message and for the assistant message id.
sendMessage(content, useStreaming, t0, t1) ==
    LET userMessage == Message(t0, content, "user", t0, None, FALSE, FALSE, None, None, None)
        newMessages == Append(messages, userMessage)
        history == conversationHistory(newMessages)
        placeholder == Message(t1 + 1, EmptyStr, "assistant", t1, Some(EmptyStr),
                               TRUE, FALSE, None, None, None)
    IN  /\ isLoading' = TRUE
        /\ error' = None
        /\ turnsLeft' = turnsLeft - 1
        /\ request' = [content |-> content, conversation_history |-> history,
                       stream |-> useStreaming]
        /\ requests' = requests + 1
        /\ outcome' = "none"
        /\ log' = << >>
        /\ sent' = << >>
        /\ wire' = << >>
        /\ srvClosed' = FALSE
        /\ lines' = << >>
        /\ UNCHANGED << eventsLeft, exec >>
        /\ IF useStreaming
           THEN /\ messages' = Append(newMessages, placeholder)
                /\ now' = t1
                /\ assistantMessageId' = t1 + 1
                /\ streamedContent' = EmptyStr
                /\ thinkingContent' = EmptyStr
                /\ toolCalls' = << >>
                /\ filesCreated' = << >>
                /\ contentBlocks' = << >>
                /\ pc' = "fetch"
           ELSE /\ messages' = newMessages
                /\ now' = t0
                /\ UNCHANGED locals
                /\ pc' = "send"

\* ChatInput.handleSubmit: onSend(message.trim()) when the text is not blank
\* and the chat is not loading; onSend is sendMessage with its default mode
\* (variant: the submit does not look at isLoading)
SubmitGuardIgnoresLoading(message) == Len(Trim(message)) > 0

SubmitGuard(message) == Len(Trim(message)) > 0 /\ ~isLoading

handleSubmit ==
    /\ turnsLeft > 0
    /\ \E message \in Texts, d0 \in Elapsed, d1 \in Elapsed :
          /\ SubmitGuard(message)
          /\ sendMessage(Trim(message), TRUE, now + d0, now + d0 + d1)

\* sendMessage(content, false): the non-streaming mode, which the ChatInput
\* never selects; a host component calls it under the same guard
sendNonStreaming ==
    /\ turnsLeft > 0
    /\ \E message \in Texts, d0 \in Elapsed :
          /\ SubmitGuard(message)
          /\ sendMessage(Trim(message), FALSE, now + d0, now + d0)

\* the catch block of sendMessage
ErrorMessage(thrown) == IF thrown.isError THEN thrown.message ELSE "An error occurred"
NewError(message) == [isError |-> TRUE, message |-> message]

\* (variant: the catch block issues the request again)
CatchRetries(thrown, how) ==
    /\ requests' = requests + 1
    /\ pc' = "fetch"
    /\ outcome' = "none"
    /\ UNCHANGED << chat, now, turnsLeft, exec, request, locals >>

\* (variant: the catch block ends the loading state and records no error)
CatchSwallows(thrown, how) ==
    /\ isLoading' = FALSE
    /\ error' = error
    /\ pc' = "done"
    /\ outcome' = how
    /\ UNCHANGED << messages, now, turnsLeft, exec, request, requests, locals >>

Catch(thrown, how) ==
    /\ isLoading' = FALSE
    /\ error' = Some(ErrorMessage(thrown))
    /\ pc' = "done"
    /\ outcome' = how
    /\ UNCHANGED << messages, now, turnsLeft, exec, request, requests, locals >>

\* ------------------------------------------- ApiService.sendMessageStream
\* await fetch(...) resolved with an OK response that has a body
FetchOk ==
    /\ pc = "fetch"
    /\ pc' = "read"
    /\ UNCHANGED << chat, now, outcome, turnsLeft, exec, request, requests, locals, transport, log >>

\* !response.ok: throw new Error(`HTTP error! status: ${response.status}`)
FetchNotOk ==
    /\ pc = "fetch"
    /\ Catch(NewError("HTTP error! status: 500"), "transport")
    /\ UNCHANGED << transport, log >>

\* !response.body: throw new Error('No response body')
FetchNoBody ==
    /\ pc = "fetch"
    /\ Catch(NewError("No response body"), "transport")
    /\ UNCHANGED << transport, log >>

\* fetch itself rejects (the server cannot be reached)
FetchRejected ==
    /\ pc = "fetch"
    /\ Catch(NewError("Failed to fetch"), "transport")
    /\ UNCHANGED << transport, log >>

\* One more line of the response body arrives while the reader waits in
\* reader.read().  (A line that arrives while the client still works on an
\* earlier read is seen by the next read, exactly as if it had arrived then.)
Arrives(from) ==
    /\ pc = "read"
    /\ ~srvClosed
    /\ eventsLeft > 0
    /\ \E l \in from :
          /\ wire' = Append(wire, l)
          /\ sent' = IF l.kind = "data" THEN Append(sent, l.chunk) ELSE sent
    /\ eventsLeft' = eventsLeft - 1
    /\ UNCHANGED << chat, now, pc, outcome, turnsLeft, exec, request, requests, locals,
                    srvClosed, lines, log >>

ServerEmit == Arrives(Lines)
ServerEmitCore == Arrives(CoreLines)

\* the Turn Executor (or the network) closes the response body
ServerClose ==
    /\ pc = "read"
    /\ ~srvClosed
    /\ srvClosed' = TRUE
    /\ UNCHANGED << chat, now, pc, outcome, turnsLeft, exec, request, requests, locals,
                    wire, lines, log, sent, eventsLeft >>

\* (variant: the lines of a read are gone through last to first)
ReadChunkReversed ==
    /\ pc = "read"
    /\ wire # << >>
    /\ lines' = [i \in 1..Len(wire) |-> wire[Len(wire) + 1 - i]]
    /\ wire' = << >>
    /\ pc' = "lines"
    /\ UNCHANGED << chat, now, outcome, turnsLeft, exec, request, requests, locals,
                    srvClosed, log, sent, eventsLeft >>

\* reader.read() returns what has arrived; chunk.split('\n') gives its lines
ReadChunk ==
    /\ pc = "read"
    /\ wire # << >>
    /\ lines' = wire
    /\ wire' = << >>
    /\ pc' = "lines"
    /\ UNCHANGED << chat, now, outcome, turnsLeft, exec, request, requests, locals,
                    srvClosed, log, sent, eventsLeft >>

\* reader.read() returns while the last event line has only partly arrived:
\* the chunk ends inside that line.  split('\n') gives the complete lines and
\* the head of the cut line, which is either `data: ` with a piece of JSON
\* that does not parse, or a piece of the prefix; the rest of the line opens
\* the next read and does not start with 'data: '.  Nothing is kept from one
\* read to the next.  (Only an event line is cut here: the pieces of a cut
\* line of another kind are passed over as the line itself would be.)
CutHeads == { BadLine, OtherLine }
CutTail == OtherLine

ReadSplit ==
    /\ pc = "read"
    /\ wire # << >>
    /\ wire[Len(wire)].kind = "data"
    /\ eventsLeft > 0
    /\ \E head \in CutHeads : lines' = Append(Front(wire), head)
    /\ wire' = << CutTail >>
    /\ pc' = "lines"
    /\ eventsLeft' = eventsLeft - 1
    /\ UNCHANGED << chat, now, outcome, turnsLeft, exec, request, requests, locals,
                    srvClosed, log, sent >>

\* reader.read() returns done: the loop breaks, the lock is released, the
\* generator returns and the for-await loop of sendMessage ends normally
ReadDone ==
    /\ pc = "read"
    /\ wire = << >>
    /\ srvClosed
    /\ pc' = "done"
    /\ outcome' = "closed"
    /\ UNCHANGED << chat, now, turnsLeft, exec, request, requests, locals, transport, log >>

\* reader.read() rejects (the connection was reset)
ReadThrows ==
    /\ pc = "read"
    /\ Catch(NewError("network error"), "transport")
    /\ UNCHANGED << transport, log >>

\* where the generator is once the head of `lines` has been dealt with
AfterLine == IF Tail(lines) = << >> THEN "read" ELSE "lines"

\* a line that does not start with 'data: ' is passed over
SkipLine ==
    /\ pc = "lines"
    /\ Head(lines).kind = "other"
    /\ lines' = Tail(lines)
    /\ pc' = AfterLine
    /\ UNCHANGED << chat, now, outcome, turnsLeft, exec, request, requests, locals,
                    wire, srvClosed, log, sent, eventsLeft >>

\* JSON.parse throws: console.warn, and the loop goes on
ParseFailure ==
    /\ pc = "lines"
    /\ Head(lines).kind = "bad"
    /\ lines' = Tail(lines)
    /\ pc' = AfterLine
    /\ UNCHANGED << chat, now, outcome, turnsLeft, exec, request, requests, locals,
                    wire, srvClosed, log, sent, eventsLeft >>

\* ------------------------------------------- the for-await loop of sendMessage
\* a chunk of type t is yielded to the loop body
Yielded(t) ==
    /\ pc = "lines"
    /\ Head(lines).kind = "data"
    /\ Head(lines).chunk.type = t

NextChunk ==
    /\ lines' = Tail(lines)
    /\ log' = Append(log, Head(lines).chunk)
    /\ UNCHANGED << wire, srvClosed, sent, eventsLeft >>

\* prev.messages.map(msg => msg.id === assistantMessageId ? {...msg, ...} : msg)
\* (variant: the thinking text is set and the phase flag is left as it was)
WithThinkingKeepsPhase(msg, text) == [msg EXCEPT !.thinking = Some(text)]

WithThinking(msg, text) == [msg EXCEPT !.thinking = Some(text), !.isThinking = TRUE]
MapThinking(msgs, id, text) ==
    [i \in 1..Len(msgs) |-> IF msgs[i].id = id THEN WithThinking(msgs[i], text) ELSE msgs[i]]

WithContent(msg, text) == [msg EXCEPT !.content = text, !.isThinking = FALSE]
\* (variant: filter for map, only the message with the id is kept)
MapContentFilters(msgs, id, text) ==
    LET kept == SelectSeq(msgs, LAMBDA m : m.id = id)
    IN  [i \in 1..Len(kept) |-> WithContent(kept[i], text)]
MapContent(msgs, id, text) ==
    [i \in 1..Len(msgs) |-> IF msgs[i].id = id THEN WithContent(msgs[i], text) ELSE msgs[i]]

Finalized(msg, tc, fc, cb) == [msg EXCEPT !.isStreaming = FALSE, !.isThinking = FALSE, !.tool_calls = Some(tc), !.files_created = Some(fc), !.content_blocks = Some(cb)]
MapFinalized(msgs, id, tc, fc, cb) ==
    [i \in 1..Len(msgs) |-> IF msgs[i].id = id THEN Finalized(msgs[i], tc, fc, cb) ELSE msgs[i]]

\* (variant: the delta is appended without the space)
ThinkingAppendNoSpace(buffer, chunk) == buffer \o Get(chunk.content)

\* chunk.type === 'thinking'
ThinkingAppend(buffer, chunk) == buffer \o Get(chunk.content) \o Str(SP)

ChunkThinking ==
    /\ Yielded("thinking")
    /\ LET chunk == Head(lines).chunk
           buffer == ThinkingAppend(thinkingContent, chunk)
       IN  /\ thinkingContent' = buffer
           /\ messages' = MapThinking(messages, assistantMessageId, Trim(buffer))
    /\ NextChunk
    /\ pc' = AfterLine
    /\ UNCHANGED << isLoading, error, now, outcome, turnsLeft, exec, request, requests,
                    assistantMessageId, streamedContent, toolCalls, filesCreated,
                    contentBlocks >>

\* (variant: `=` for `+=`, the buffer is replaced by the delta)
ContentReplace(buffer, chunk) == Get(chunk.content) \o Str(SP)

\* chunk.type === 'content'
ContentAppend(buffer, chunk) == buffer \o Get(chunk.content) \o Str(SP)

ChunkContent ==
    /\ Yielded("content")
    /\ LET chunk == Head(lines).chunk
           buffer == ContentAppend(streamedContent, chunk)
       IN  /\ streamedContent' = buffer
           /\ messages' = MapContent(messages, assistantMessageId, Trim(buffer))
    /\ NextChunk
    /\ pc' = AfterLine
    /\ UNCHANGED << isLoading, error, now, outcome, turnsLeft, exec, request, requests,
                    assistantMessageId, thinkingContent, toolCalls, filesCreated,
                    contentBlocks >>

\* x || []
OrEmpty(o) == IF IsSome(o) THEN Get(o) ELSE << >>

\* (variant: the lists of a tools event are added to those already known)
ChunkToolsAccumulates ==
    /\ Yielded("tools")
    /\ LET chunk == Head(lines).chunk
       IN  /\ toolCalls' = toolCalls \o OrEmpty(chunk.tool_calls)
           /\ filesCreated' = filesCreated \o OrEmpty(chunk.files_created)
           /\ contentBlocks' = OrEmpty(chunk.content_blocks)
    /\ NextChunk
    /\ pc' = AfterLine
    /\ UNCHANGED << chat, now, outcome, turnsLeft, exec, request, requests,
                    assistantMessageId, streamedContent, thinkingContent >>

\* chunk.type === 'tools': only the locals change
ChunkTools ==
    /\ Yielded("tools")
    /\ LET chunk == Head(lines).chunk
       IN  /\ toolCalls' = OrEmpty(chunk.tool_calls)
           /\ filesCreated' = OrEmpty(chunk.files_created)
           /\ contentBlocks' = OrEmpty(chunk.content_blocks)
    /\ NextChunk
    /\ pc' = AfterLine
    /\ UNCHANGED << chat, now, outcome, turnsLeft, exec, request, requests,
                    assistantMessageId, streamedContent, thinkingContent >>

\* new Error(chunk.error).message: '' when chunk.error is undefined
ChunkErrorMessage(chunk) == IF IsSome(chunk.error) THEN Get(chunk.error) ELSE ""

\* chunk.type === 'error': throw, the generator is closed, the catch block runs
ChunkError ==
    /\ Yielded("error")
    /\ Catch(NewError(ChunkErrorMessage(Head(lines).chunk)), "error")
    /\ NextChunk

\* (variant: no break, the loop goes on with the next line)
AfterEndNoBreak == AfterLine

\* what the loop does after the 'end' chunk: break
AfterEnd == "done"

\* chunk.type === 'end': finalize the message and leave the loop
ChunkEnd ==
    /\ Yielded("end")
    /\ messages' = MapFinalized(messages, assistantMessageId, toolCalls, filesCreated, contentBlocks)
    /\ isLoading' = FALSE
    /\ NextChunk
    /\ pc' = AfterEnd
    /\ outcome' = "end"
    /\ UNCHANGED << error, now, turnsLeft, exec, request, requests, locals >>

\* ------------------------------------------------- the non-streaming branch
Responses ==
    { [content |-> Str("a"), tool_calls |-> None, files_created |-> None, content_blocks |-> None],
      [content |-> Str("a"), tool_calls |-> Some(<< "instantiate_world" >>), files_created |-> Some(<< "f1" >>),
       content_blocks |-> Some(<< ToolUse(1), ToolResult(1), TextBlock(Str("a")) >>)] }

\* (variant: the content blocks of the response are not copied)
SendOkDropsBlocks ==
    /\ pc = "send"
    /\ \E response \in Responses, d \in Elapsed :
          LET t == now + d
              assistantMessage == Message(t + 1, response.content, "assistant", t, None, FALSE, FALSE, response.tool_calls, response.files_created, None)
          IN  /\ messages' = Append(messages, assistantMessage)
              /\ now' = t
    /\ isLoading' = FALSE
    /\ pc' = "done"
    /\ outcome' = "response"
    /\ UNCHANGED << error, turnsLeft, exec, request, requests, locals, transport, log >>

\* apiService.sendMessage resolved: append the assistant message
SendOk ==
    /\ pc = "send"
    /\ \E response \in Responses, d \in Elapsed :
          LET t == now + d
              assistantMessage == Message(t + 1, response.content, "assistant", t, None, FALSE, FALSE, response.tool_calls, response.files_created, response.content_blocks)
          IN  /\ messages' = Append(messages, assistantMessage)
              /\ now' = t
    /\ isLoading' = FALSE
    /\ pc' = "done"
    /\ outcome' = "response"
    /\ UNCHANGED << error, turnsLeft, exec, request, requests, locals, transport, log >>

\* apiService.sendMessage threw: !response.ok, or fetch rejected
SendFails ==
    /\ pc = "send"
    /\ Catch(NewError("HTTP error! status: 500"), "transport")
    /\ UNCHANGED << transport, log >>

\* ---------------------------------------------------------------- clearError
\* (variant: dismissing the error also ends the loading state)
clearErrorEndsLoading ==
    /\ error' = None
    /\ isLoading' = FALSE
    /\ UNCHANGED << messages, now, pc, outcome, turnsLeft, exec, request, requests,
                    locals, transport, log >>

\* setState(prev => ({ ...prev, error: null }))
clearError ==
    /\ error' = None
    /\ UNCHANGED << messages, isLoading, now, pc, outcome, turnsLeft, exec, request, requests,
                    locals, transport, log >>

\* the shipped application: ChatInterface wires the ChatInput to sendMessage,
\* so every turn is a streaming turn
NextApp ==
    \/ handleSubmit
    \/ FetchOk
    \/ FetchNotOk
    \/ FetchNoBody
    \/ FetchRejected
    \/ ServerEmitCore
    \/ ServerClose
    \/ ReadChunk
    \/ ReadSplit
    \/ ReadDone
    \/ ReadThrows
    \/ SkipLine
    \/ ParseFailure
    \/ ChunkThinking
    \/ ChunkContent
    \/ ChunkTools
    \/ ChunkError
    \/ ChunkEnd
    \/ clearError

\* the useChat hook as an interface: sendMessage in either mode
Next ==
    \/ NextApp
    \/ ServerEmit
    \/ sendNonStreaming
    \/ SendOk
    \/ SendFails

\* the chat of the application over several turns
Spec == Init /\ [][NextApp]_vars

\* one sendMessage call, in either mode, with a longer stream
InitTurn ==
    /\ Init!1 /\ Init!2 /\ Init!3 /\ Init!4 /\ Init!5 /\ Init!6
    /\ turnsLeft = 1
    /\ Init!8 /\ Init!9 /\ Init!10 /\ Init!11 /\ Init!12 /\ Init!13
    /\ Init!14 /\ Init!15 /\ Init!16 /\ Init!17 /\ Init!18 /\ Init!19
    /\ Init!20
    /\ eventsLeft = MaxTurnEvents
    /\ Init!22

SpecTurn == InitTurn /\ [][Next]_vars

\* ------------------------------------------- the history of one more request
\* Chats of one or two earlier turns, as the turns of the chat leave them:
\* the assistant message of an earlier turn is completed with the block list
\* its `tools` event carried (any list: the client takes it as it comes), or
\* it is the answer of a non-streaming turn without blocks, or it is the
\* placeholder a failed turn left behind.
BlockLists ==
    { << >>,
      << ThinkingBlock >>,
      << ToolUse(1), ToolResult(1) >>,
      << ThinkingBlock, ToolUse(1), ToolResult(1) >>,
      << TextBlock(Str(SP)) >>,
      << ThinkingBlock, TextBlock(EmptyStr) >>,
      << TextBlock(Str("a")) >>,
      << ToolUse(1), ToolResult(1), TextBlock(Str("a")) >> }

EarlierAnswers(id) ==
    { Message(id, c, "assistant", id - 1, Some(EmptyStr), FALSE, FALSE, Some(<< >>), Some(<< >>), Some(b)) :
          c \in { EmptyStr, Str("a") }, b \in BlockLists } \cup
    { Message(id, Str("a"), "assistant", id - 1, None, FALSE, FALSE, None, None, None),
      Message(id, EmptyStr, "assistant", id - 1, Some(EmptyStr), TRUE, FALSE, None, None, None),
      Message(id, Str("a"), "assistant", id - 1, Some(EmptyStr), TRUE, FALSE, None, None, None) }

EarlierTurn(t) ==
    { << Message(t, Str("a"), "user", t, None, FALSE, FALSE, None, None, None), a >> :
          a \in EarlierAnswers(t + 1) }

EarlierChats ==
    { INITIAL_STATE(1).messages \o first : first \in EarlierTurn(1) } \cup
    { INITIAL_STATE(1).messages \o first \o second :
          first \in EarlierTurn(1), second \in EarlierTurn(3) }

InitHistory ==
    /\ now = 4
    /\ messages \in EarlierChats
    /\ Init!3 /\ Init!4 /\ Init!5 /\ Init!6 /\ Init!7 /\ Init!8 /\ Init!9
    /\ Init!10 /\ Init!11 /\ Init!12 /\ Init!13 /\ Init!14 /\ Init!15 /\ Init!16
    /\ Init!17 /\ Init!18 /\ Init!19 /\ Init!20 /\ Init!21 /\ Init!22

\* the user sends one more message: sendMessage computes the history
SpecHistory == InitHistory /\ [][handleSubmit]_vars

\* ------------------------------------------------ Turn Executor: one turn
\* the configured maximum of LLM round trips of one turn
maxRounds == 3

client == << chat, now, pc, outcome, turnsLeft, request, requests, locals, transport, log >>

\* the tool_use blocks among a list of blocks
ToolUsesOf(blocks) == SelectSeq(blocks, LAMBDA b : b.type = "tool_use")

\* a turn begins: history and the user content are submitted to the LLM
ExecutorStart ==
    /\ exec.pc = "idle"
    /\ exec' = [exec EXCEPT !.pc = "llm", !.round = 1]
    /\ UNCHANGED client

\* what one LLM response adds before its tool_use blocks: the deltas are
\* forwarded as events and kept as blocks
Forwarded(thinks, speaks) ==
    (IF thinks THEN << ExecEvent("thinking_delta", "") >> ELSE << >>) \o
    (IF speaks THEN << ExecEvent("content_delta", "") >> ELSE << >>)
Accumulated(thinks, speaks) ==
    (IF thinks THEN << ExecBlock("thinking", 0, FALSE, "t") >> ELSE << >>) \o
    (IF speaks THEN << ExecBlock("text", 0, FALSE, "a") >> ELSE << >>)

\* (variant: the guard compares one round too late)
RoundsExceededLate(round) == round > maxRounds

\* the anti-infinite-loop guard: no round trip is left for a continuation
RoundsExceeded(round) == round >= maxRounds

\* the LLM's response has tool_use blocks and a round is left: emit `tools`
\* with the tool_use list so far, then call the Tool Bridge for each of them
LlmToolUse ==
    /\ exec.pc = "llm"
    /\ ~RoundsExceeded(exec.round)
    /\ \E thinks \in BOOLEAN, speaks \in BOOLEAN, k \in 1..MaxToolUses :
          LET base == exec.blocks \o Accumulated(thinks, speaks)
              uses == [j \in 1..k |-> ExecBlock("tool_use", Len(base) + j, FALSE, "")]
          IN  exec' = [exec EXCEPT
                          !.blocks = base \o uses,
                          !.emitted = exec.emitted \o Forwarded(thinks, speaks)
                                         \o << ExecEvent("tools", "") >>,
                          !.pending = [j \in 1..k |-> uses[j].id],
                          !.pc = "bridge"]
    /\ UNCHANGED client

\* the LLM's response has tool_use blocks and the round count is reached:
\* emit `error` with the tool-loop-exceeded reason
LoopGuard ==
    /\ exec.pc = "llm"
    /\ RoundsExceeded(exec.round)
    /\ \E thinks \in BOOLEAN, speaks \in BOOLEAN, k \in 1..MaxToolUses :
          LET base == exec.blocks \o Accumulated(thinks, speaks)
              uses == [j \in 1..k |-> ExecBlock("tool_use", Len(base) + j, FALSE, "")]
          IN  exec' = [exec EXCEPT
                          !.blocks = base \o uses,
                          !.emitted = exec.emitted \o Forwarded(thinks, speaks)
                                         \o << ExecEvent("error", LoopExceeded) >>,
                          !.pc = "done"]
    /\ UNCHANGED client

\* the LLM's response has no tool_use block: the final round.  A turn that
\* used tools emits the consolidated `tools` event, then `end`
LlmFinal ==
    /\ exec.pc = "llm"
    /\ \E thinks \in BOOLEAN, speaks \in BOOLEAN :
          exec' = [exec EXCEPT
                      !.blocks = exec.blocks \o Accumulated(thinks, speaks),
                      !.emitted = exec.emitted \o Forwarded(thinks, speaks)
                                     \o (IF ToolUsesOf(exec.blocks) # << >>
                                         THEN << ExecEvent("tools", "") >> ELSE << >>)
                                     \o << ExecEvent("end", "") >>,
                      !.pc = "done"]
    /\ UNCHANGED client

\* the request to the LLM fails
LlmFails ==
    /\ exec.pc = "llm"
    /\ exec' = [exec EXCEPT !.emitted = Append(exec.emitted, ExecEvent("error", LlmFailed)),
                            !.pc = "done"]
    /\ UNCHANGED client

\* where the executor goes once the head of `pending` has its result:
\* when all have, the augmented turn is submitted again
AfterTool == IF Tail(exec.pending) = << >> THEN "llm" ELSE "bridge"
RoundAfterTool == IF Tail(exec.pending) = << >> THEN exec.round + 1 ELSE exec.round

\* (variant: a failed tool ends the turn with an error event)
ToolFailureEndsTurn(result) ==
    /\ exec.pc = "bridge"
    /\ exec' = [exec EXCEPT
                    !.emitted = IF result.ok THEN exec.emitted
                                ELSE Append(exec.emitted, ExecEvent("error", result.text)),
                    !.blocks = IF result.ok
                               THEN Append(exec.blocks, ExecBlock("tool_result", Head(exec.pending), FALSE, result.text))
                               ELSE exec.blocks,
                    !.failed = IF result.ok THEN exec.failed ELSE exec.failed \cup { Head(exec.pending) },
                    !.pending = Tail(exec.pending),
                    !.pc = IF result.ok THEN AfterTool ELSE "done",
                    !.round = IF result.ok THEN RoundAfterTool ELSE exec.round]
    /\ UNCHANGED client

\* the Tool Bridge returned for the head of `pending`: append a tool_result,
\* with is_error = true and the error text when it failed
AppendToolResult(result) ==
    /\ exec.pc = "bridge"
    /\ exec' = [exec EXCEPT
                    !.blocks = Append(exec.blocks,
                                  ExecBlock("tool_result", Head(exec.pending), ~result.ok, result.text)),
                    !.failed = IF result.ok THEN exec.failed ELSE exec.failed \cup { Head(exec.pending) },
                    !.pending = Tail(exec.pending),
                    !.pc = AfterTool,
                    !.round = RoundAfterTool]
    /\ UNCHANGED client

BridgeReturns == \E result \in BridgeResults : AppendToolResult(result)

\* the Tool Bridge raised instead of returning: treated as a failed result
BridgeRaises == AppendToolResult([ok |-> FALSE, text |-> "bridge raised"])

NextExecutor ==
    \/ ExecutorStart
    \/ LlmToolUse
    \/ LoopGuard
    \/ LlmFinal
    \/ LlmFails
    \/ BridgeReturns
    \/ BridgeRaises

\* one turn of the executor; it keeps taking steps until the turn is done
SpecExecutor == Init /\ [][NextExecutor]_vars /\ WF_vars(NextExecutor)

\* ======================================================================
\* Properties
\* ======================================================================
\* the indices of the message the current turn streams into
InFlight == { i \in 1..Len(messages) : messages[i].id = assistantMessageId }
StreamingTurn == request.stream
LastChunk == log[Len(log)]
ToolsSeen == { i \in 1..Len(log) : log[i].type = "tools" }
TextOf(o) == IF Len(o) = 1 THEN o[1] ELSE EmptyStr

\* the list the history of the current request was computed from: at "fetch"
\* the placeholder has been appended after it
RequestJustBuilt == pc = "fetch"
NewMessagesOfRequest == Front(messages)
HistoryOfRequest == request.conversation_history

\* C1: when the stream of a turn closes without an `end` or `error` event,
\* the in-flight message stops being marked as streaming and an error reason
\* is recorded.
C1_ClosedStreamFailsTheTurn ==
    outcome = "closed" =>
        /\ \A i \in InFlight : ~messages[i].isStreaming
        /\ IsSome(error)

\* C2: once a sendMessage call is over, however its stream terminated,
\* isLoading is false.
C2_FinishedTurnIsNotLoading ==
    pc = "done" => ~isLoading

\* C3: after `end` the message is done (not streaming, not thinking) and its
\* content_blocks are those of the last `tools` event, or, without any `tools`
\* event, the blocks of the running thinking/content buffers.
BufferBlocks(thinking, content) ==
    (IF thinking # EmptyStr THEN << ThinkingBlock >> ELSE << >>) \o
    (IF content # EmptyStr THEN << TextBlock(content) >> ELSE << >>)

C3_EndGivesLastToolsBlocksOrBuffers ==
    (outcome = "end" /\ StreamingTurn) =>
        \A i \in InFlight :
            /\ ~messages[i].isStreaming
            /\ ~messages[i].isThinking
            /\ messages[i].content_blocks =
                  IF ToolsSeen # {}
                  THEN Some(OrEmpty(log[Max(ToolsSeen)].content_blocks))
                  ELSE Some(BufferBlocks(TextOf(messages[i].thinking), messages[i].content))

\* C4: after an `error` event the in-flight message is no longer marked
\* isStreaming or isThinking, the recorded error is the event's error string
\* (until it is dismissed), and isLoading is false.
C4_ErrorEventFailsTheMessage ==
    outcome = "error" =>
        /\ \A i \in InFlight : ~messages[i].isStreaming /\ ~messages[i].isThinking
        /\ error \in { None, Some(ChunkErrorMessage(LastChunk)) }
        /\ ~isLoading

\* C5: once an `end` or an `error` event of a turn has been processed, no
\* later step of that turn yields a chunk or changes the message list or
\* isLoading, and error changes only by being dismissed.
C5_NothingAfterTerminalEvent ==
    [][ (outcome \in {"end", "error"} /\ turnsLeft' = turnsLeft) =>
            /\ messages' = messages
            /\ isLoading' = isLoading
            /\ log' = log
            /\ lines' = lines
            /\ error' \in { error, None } ]_vars

C5_Witness ==
    /\ outcome \in {"end", "error"}
    /\ lines # << >>
    /\ Head(lines).kind = "data"

\* C6: the thinking text and the content text of every message only grow: a
\* step leaves each message in place and its old texts are prefixes of its
\* new ones.
C6_DisplayedTextOnlyGrows ==
    [][ \A i \in 1..Len(messages) :
            /\ i <= Len(messages')
            /\ IsPrefix(TextOf(messages[i].thinking), TextOf(messages'[i].thinking))
            /\ IsPrefix(messages[i].content, messages'[i].content) ]_vars

C6_Witness ==
    /\ Len(log) = 3
    /\ log[1].type = "content" /\ log[2].type = "tools" /\ log[3].type = "content"
    /\ \E i \in InFlight : messages[i].content = << "a", SP, "a" >>

\* C7: the history of a request is the history of the list without its
\* in-flight messages, and taking any one in-flight message out of the list
\* leaves the history as it is.
StillInFlight(msg) == msg.isStreaming
Settled(msg) == ~msg.isStreaming
Without(msgs, i) == SubSeq(msgs, 1, i - 1) \o SubSeq(msgs, i + 1, Len(msgs))

C7_HistoryIgnoresInFlight ==
    RequestJustBuilt =>
        LET new == NewMessagesOfRequest
        IN  /\ HistoryOfRequest = conversationHistory(SelectSeq(new, Settled))
            /\ \A i \in 1..Len(new) :
                  StillInFlight(new[i]) => HistoryOfRequest = conversationHistory(Without(new, i))

C7_Witness ==
    /\ RequestJustBuilt
    /\ HistoryOfRequest # << >>
    /\ \E i \in 1..Len(NewMessagesOfRequest) :
          /\ StillInFlight(NewMessagesOfRequest[i])
          /\ Len(Trim(NewMessagesOfRequest[i].content)) > 0

\* C8: no entry of a request's history is empty: a string entry has a
\* character that is not white space, a block-list entry has a block.
EntryIsEmpty(entry) ==
    IF entry.content.kind = "string"
    THEN \A k \in 1..Len(entry.content.str) : entry.content.str[k] = SP
    ELSE Len(entry.content.blocks) = 0

C8_NoEmptyHistoryEntry ==
    \A k \in 1..Len(HistoryOfRequest) : ~EntryIsEmpty(HistoryOfRequest[k])

C8_Witness ==
    /\ RequestJustBuilt
    /\ HistoryOfRequest # << >>
    /\ \E i \in 1..Len(NewMessagesOfRequest) - 1 :
          LET msg == NewMessagesOfRequest[i]
          IN  /\ msg.id # WelcomeId
              /\ ~msg.isStreaming
              /\ EntryIsEmpty([role |-> msg.role, content |-> ResolveContent(msg)])

\* C9: every earlier assistant message that is not in flight and has
\* non-empty text has an entry in the history of the request (its blocks or
\* its text, under its role).
C9_CompletedTurnsAreReplayed ==
    RequestJustBuilt =>
        \A i \in 1..Len(NewMessagesOfRequest) - 1 :
            LET msg == NewMessagesOfRequest[i]
            IN  (/\ msg.id # WelcomeId
                 /\ msg.role = "assistant"
                 /\ ~msg.isStreaming
                 /\ Len(Trim(msg.content)) > 0)
                => \E k \in 1..Len(HistoryOfRequest) :
                      /\ HistoryOfRequest[k].role = "assistant"
                      /\ \/ HistoryOfRequest[k].content = StringContent(msg.content)
                         \/ /\ IsSome(msg.content_blocks)
                            /\ HistoryOfRequest[k].content = BlocksContent(Get(msg.content_blocks))

\* C10: the history is, in order, the entries of some of the earlier
\* messages, one entry per message, each under its message's role.
RECURSIVE IsOrderedSelection(_, _)
IsOrderedSelection(entries, msgs) ==
    IF entries = << >> THEN TRUE
    ELSE IF msgs = << >> THEN FALSE
    ELSE IF /\ Head(entries).role = Head(msgs).role
            /\ Head(entries).content = ResolveContent(Head(msgs))
         THEN IsOrderedSelection(Tail(entries), Tail(msgs))
         ELSE IsOrderedSelection(entries, Tail(msgs))

C10_HistoryKeepsOrderAndRole ==
    RequestJustBuilt =>
        IsOrderedSelection(HistoryOfRequest, SubSeq(NewMessagesOfRequest, 1, Len(NewMessagesOfRequest) - 1))

C10_Witness ==
    /\ RequestJustBuilt
    /\ Len(HistoryOfRequest) >= 2
    /\ HistoryOfRequest[1].role = "user"
    /\ HistoryOfRequest[2].role = "assistant"


\* C11: the history entry of an assistant message carries the message's
\* content blocks when a structured form was produced (a non-empty block
\* list), and the message's plain text when none was produced
StructuredFormProduced(msg) ==
    /\ IsSome(msg.content_blocks)
    /\ Len(Get(msg.content_blocks)) > 0

C11_EntryIsBlocksOrPlainText ==
    \A i \in 1..Len(messages) :
        (messages[i].role = "assistant" /\ NotWelcome(messages[i]))
            => HistoryEntry(messages[i]).content =
                  IF StructuredFormProduced(messages[i])
                  THEN BlocksContent(Get(messages[i].content_blocks))
                  ELSE StringContent(messages[i].content)

\* C12: a `tools` event is a full snapshot: when a turn ends with `end`, the
\* message's tool_calls and files_created are exactly those of the last
\* `tools` event of the turn, and empty lists when the turn had no `tools`
\* event or the last one left the field out
ListOf(o) == IF Len(o) = 1 THEN o[1] ELSE << >>
LastTools == log[Max(ToolsSeen)]

C12_ToolsEventsAreSnapshots ==
    (StreamingTurn /\ outcome = "end")
        => \A i \in InFlight :
              /\ messages[i].tool_calls =
                    Some(IF ToolsSeen = {} THEN << >> ELSE ListOf(LastTools.tool_calls))
              /\ messages[i].files_created =
                    Some(IF ToolsSeen = {} THEN << >> ELSE ListOf(LastTools.files_created))

\* a turn with two tools events, the first with a tool call and a file, the
\* last with neither, has ended
C12_Witness ==
    /\ StreamingTurn
    /\ outcome = "end"
    /\ Cardinality(ToolsSeen) = 2
    /\ ListOf(log[Min(ToolsSeen)].tool_calls) # << >>
    /\ ListOf(log[Min(ToolsSeen)].files_created) # << >>
    /\ LastTools.files_created = None
    /\ \E i \in InFlight : messages[i].files_created = Some(<< >>)

\* C13: right after a `tools` event has been processed, and before `end`,
\* the in-flight message shown to the UI already carries that event's
\* tool_calls and files_created
AfterToolsBeforeEnd ==
    /\ StreamingTurn
    /\ pc \in {"read", "lines"}
    /\ log # << >>
    /\ LastChunk.type = "tools"

C13_ToolsShownBeforeEnd ==
    AfterToolsBeforeEnd
        => \A i \in InFlight :
              /\ messages[i].tool_calls = Some(ListOf(LastChunk.tool_calls))
              /\ messages[i].files_created = Some(ListOf(LastChunk.files_created))

\* C14: a `data: ` line whose rest is not valid JSON is rejected: the step
\* that takes such a line fails the turn with an error and ends the loading
\* state, it never just passes the line over
MalformedLineIsNext == pc = "lines" /\ Head(lines).kind = "bad"

C14_MalformedEventFailsTheTurn ==
    [][(MalformedLineIsNext /\ lines' # lines)
          => (IsSome(error') /\ ~isLoading' /\ pc' = "done")]_vars

\* C15: no orphan tool_result block (one whose tool_use_id matches no
\* tool_use block that comes earlier in the same or an earlier message) is
\* in the content_blocks of a message, nor in the conversation_history of a
\* request
BlocksOfMessages == [i \in 1..Len(messages) |-> ListOf(messages[i].content_blocks)]
BlocksOfHistory ==
    [i \in 1..Len(request.conversation_history) |-> request.conversation_history[i].content.blocks]

\* the k-th block of the m-th list is a tool_result with no tool_use before it
IsOrphan(lists, m, k) ==
    /\ lists[m][k].type = "tool_result"
    /\ ~\E n \in 1..m : \E j \in 1..Len(lists[n]) :
            /\ n < m \/ j < k
            /\ lists[n][j].type = "tool_use"
            /\ lists[n][j].id = lists[m][k].tool_use_id

NoOrphan(lists) == \A m \in 1..Len(lists) : \A k \in 1..Len(lists[m]) : ~IsOrphan(lists, m, k)

C15_NoOrphanToolResult == NoOrphan(BlocksOfMessages) /\ NoOrphan(BlocksOfHistory)

\* C16: every well-formed event line the server wrote is delivered to the
\* consumer exactly once, however the reads cut the byte stream: once the
\* client has gone through all that arrived, the chunks yielded are the
\* chunks sent
AllArrivedConsumed == StreamingTurn /\ pc = "read" /\ wire = << >>

C16_EveryEventLineDelivered == AllArrivedConsumed => log = sent

\* C17: the chunks sendMessageStream yields are in the order the server sent
\* them: the yielded sequence is a subsequence of the sent sequence
RECURSIVE IsSubsequence(_, _)
IsSubsequence(a, b) ==
    IF a = << >> THEN TRUE
    ELSE IF b = << >> THEN FALSE
    ELSE IF Head(a) = Head(b) THEN IsSubsequence(Tail(a), Tail(b))
    ELSE IsSubsequence(a, Tail(b))

C17_YieldedInSentOrder == IsSubsequence(log, sent)

\* three different chunks were sent and all three were yielded
C17_Witness ==
    /\ Len(log) = 3
    /\ log = sent
    /\ log[1] # log[2]
    /\ log[2] # log[3]
    /\ log[1] # log[3]

\* C18: a transport failure of a turn (a response that is not OK, a response
\* without a body, a rejected fetch or read) leaves the chat with a non-null,
\* non-empty error message and with isLoading false
TransportFails == outcome # "transport" /\ outcome' = "transport"

C18_TransportFailureIsShown ==
    [][TransportFails
          => (IsSome(error') /\ Get(error') # "" /\ ~isLoading')]_vars

\* the read failed after a chunk had been yielded, and the error is shown
C18_Witness ==
    /\ outcome = "transport"
    /\ log # << >>
    /\ error = Some("network error")
    /\ ~isLoading

\* C19: a state update made for a stream event changes only the message
\* whose id is the in-flight assistant message id, and a message that is
\* completed (no longer streaming) is never changed again, by no later event
\* and no later turn
Completed(msg) == ~msg.isStreaming
OnlyInFlightChanges ==
    pc = "lines"
        => \A i \in 1..Len(messages) :
              messages[i].id # assistantMessageId => messages'[i] = messages[i]
CompletedStaysAsItIs ==
    \A i \in 1..Len(messages) :
        Completed(messages[i]) => (i <= Len(messages') /\ messages'[i] = messages[i])

C19_OnlyInFlightMessageChanges ==
    [][OnlyInFlightChanges /\ CompletedStaysAsItIs]_vars

\* C20: a turn is never retried automatically: a request is issued only by
\* a step in which the user sends a message, one request for that message,
\* and so none follows a failure until the user sends again
UserSends == ~isLoading /\ turnsLeft' = turnsLeft - 1

C20_OneRequestPerSend ==
    [][requests' # requests => (UserSends /\ requests' = requests + 1)]_vars

\* the first turn failed, the user has sent a second message, and the
\* second request is the only one issued since the failure
C20_Witness ==
    /\ requests = 2
    /\ turnsLeft = MaxTurns - 2
    /\ isLoading
    /\ \E i \in 1..Len(messages) :
          /\ messages[i].isStreaming
          /\ Len(messages) >= i + 2

\* C21: while a turn streams, the in-progress message is in the thinking
\* phase (isThinking true) when the last delta processed was a thinking
\* delta, and in the speaking phase (isThinking false) when it was a content
\* delta, also when a `tools` event came before that delta
DeltasSeen == { i \in 1..Len(log) : log[i].type \in {"thinking", "content"} }
LastDelta == log[Max(DeltasSeen)]
TurnStreams == StreamingTurn /\ pc \in {"read", "lines"}

C21_PhaseFollowsLastDelta ==
    (TurnStreams /\ DeltasSeen # {})
        => \A i \in InFlight : messages[i].isThinking = (LastDelta.type = "thinking")

\* a content delta, then a tools event, then a thinking delta: the message
\* is back in the thinking phase
C21_Witness ==
    /\ TurnStreams
    /\ Len(log) = 3
    /\ log[1].type = "content"
    /\ log[2].type = "tools"
    /\ log[3].type = "thinking"
    /\ \E i \in InFlight : messages[i].isThinking

\* C22: the tool-round loop of the Turn Executor ends within the configured
\* maximum of rounds: the round counter never passes the maximum, every turn
\* reaches its end, and a turn whose responses all carried tool_use blocks
\* ends with an `error` event that carries the tool-loop-exceeded reason
LastEmitted == exec.emitted[Len(exec.emitted)]
LastBlock == exec.blocks[Len(exec.blocks)]
\* the turn is over and tools were still being asked for in its last round
EndedAskingForTools ==
    /\ exec.pc = "done"
    /\ exec.blocks # << >>
    /\ LastBlock.type = "tool_use"

C22_ToolLoopIsBounded ==
    /\ [](exec.round <= maxRounds)
    /\ [](EndedAskingForTools => LastEmitted = ExecEvent("error", LoopExceeded))
    /\ [](exec.pc = "done" => LastEmitted.type \in {"end", "error"})
    /\ <>(exec.pc = "done")

\* every round asked for tools, the guard fired, and the turn is over
C22_Witness ==
    /\ exec.pc = "done"
    /\ exec.round = maxRounds
    /\ Len(ToolUsesOf(exec.blocks)) >= maxRounds
    /\ EndedAskingForTools
    /\ LastEmitted = ExecEvent("error", LoopExceeded)

\* C23: a tool failure never fails the turn: every tool_use the Tool Bridge
\* reported an error for has a tool_result block with is_error = true that
\* carries the error text, and no `error` event is emitted for it: the only
\* error events are those of the loop guard and of a failed LLM request
FailedToolHasErrorResult(id) ==
    \E k \in 1..Len(exec.blocks) :
        /\ exec.blocks[k].type = "tool_result"
        /\ exec.blocks[k].id = id
        /\ exec.blocks[k].is_error
        /\ exec.blocks[k].content \in {"disk full", "bridge raised"}

C23_ToolFailureIsNotFatal ==
    /\ \A id \in exec.failed : FailedToolHasErrorResult(id)
    /\ \A k \in 1..Len(exec.emitted) :
          exec.emitted[k].type = "error"
              => (k = Len(exec.emitted) /\ exec.emitted[k].reason \in {LoopExceeded, LlmFailed})
    /\ (exec.failed # {} /\ exec.pc # "done") => \A k \in 1..Len(exec.emitted) : exec.emitted[k].type # "error"

\* the bridge answered "disk full" for a tool and the turn reached `end`
C23_Witness ==
    /\ exec.pc = "done"
    /\ LastEmitted.type = "end"
    /\ \E id \in exec.failed : \E k \in 1..Len(exec.blocks) :
          exec.blocks[k] = ExecBlock("tool_result", id, TRUE, "disk full")

\* C24: at most one message of the list has isStreaming = true, over any
\* sequence of turns, turns that ended with an error included
StreamingMessages == { i \in 1..Len(messages) : messages[i].isStreaming }

C24_AtMostOneStreaming == Cardinality(StreamingMessages) <= 1

\* C25: the ids of the messages of the list are pairwise distinct, over any
\* sequence of turns
C25_MessageIdsAreDistinct ==
    \A i \in 1..Len(messages) : \A j \in 1..Len(messages) :
        i # j => messages[i].id # messages[j].id

\* C26: through the chat input at most one turn is in flight: a request is
\* issued only while isLoading is false and no stream of an earlier request
\* is being fetched or consumed, and issuing it sets isLoading
NoTurnInFlight == pc \in {"idle", "done"}

C26_OneTurnInFlight ==
    [][requests' # requests => (~isLoading /\ NoTurnInFlight /\ isLoading')]_vars

\* the first turn was completed by `end` and the second request is out
C26_Witness ==
    /\ requests = 2
    /\ pc = "fetch"
    /\ isLoading
    /\ \E i \in 1..Len(messages) :
          /\ messages[i].role = "assistant"
          /\ IsSome(messages[i].content_blocks)
          /\ Completed(messages[i])

\* C27: the content blocks of an earlier, completed assistant message are
\* in the conversation_history of a request if and only if at least one of
\* the blocks has a `text` field that is not blank; a message whose blocks
\* are only thinking, tool_use or tool_result blocks is not in it
NotBlank(str) == \E c \in 1..Len(str) : str[c] # SP
SomeBlockHasText(blocks) ==
    \E k \in 1..Len(blocks) : Len(blocks[k].text) = 1 /\ NotBlank(blocks[k].text[1])
InHistory(content) ==
    \E e \in 1..Len(HistoryOfRequest) : HistoryOfRequest[e].content = content
\* the earlier messages of the request whose content is a block list
RepliesWithBlocks ==
    { i \in 1..Len(NewMessagesOfRequest) :
          /\ NewMessagesOfRequest[i].role = "assistant"
          /\ NewMessagesOfRequest[i].id # WelcomeId
          /\ Completed(NewMessagesOfRequest[i])
          /\ IsSome(NewMessagesOfRequest[i].content_blocks) }
BlocksAt(i) == Get(NewMessagesOfRequest[i].content_blocks)

C27_BlocksKeptIffSomeText ==
    RequestJustBuilt
        => \A i \in RepliesWithBlocks :
              InHistory(BlocksContent(BlocksAt(i))) <=> SomeBlockHasText(BlocksAt(i))

\* a request after two turns: one answer is tool blocks only and is not in
\* the history, the other has a text block and is
C27_Witness ==
    /\ RequestJustBuilt
    /\ \E i \in RepliesWithBlocks :
          /\ BlocksAt(i) = << ThinkingBlock, ToolUse(1), ToolResult(1) >>
          /\ ~InHistory(BlocksContent(BlocksAt(i)))
    /\ \E i \in RepliesWithBlocks :
          /\ BlocksAt(i) = << ToolUse(1), ToolResult(1), TextBlock(Str("a")) >>
          /\ InHistory(BlocksContent(BlocksAt(i)))

\* C28: the conversation_history of a request has no entry for the welcome
\* message and none for the user message being sent, and dropping the
\* current message drops no earlier one: the history is made of exactly the
\* messages between the welcome message and the message being sent
EarlierMessages == SubSeq(NewMessagesOfRequest, 2, Len(NewMessagesOfRequest) - 1)
EntriesOfEarlier ==
    LET settled == SelectSeq(EarlierMessages, Settled)
    IN  SelectSeq([i \in 1..Len(settled) |-> HistoryEntry(settled[i])], NonEmptyContent)

C28_HistoryIsTheEarlierMessages ==
    RequestJustBuilt
        => /\ HistoryOfRequest = EntriesOfEarlier
           /\ \A e \in 1..Len(HistoryOfRequest) :
                 HistoryOfRequest[e].content # StringContent(WelcomeContent)
           /\ request.content = NewMessagesOfRequest[Len(NewMessagesOfRequest)].content

\* the request of a second turn: the history is the user message and the
\* answer of the first turn, and the new user message is not in it
C28_Witness ==
    /\ RequestJustBuilt
    /\ Len(NewMessagesOfRequest) = 4
    /\ Len(HistoryOfRequest) = 2
    /\ HistoryOfRequest[1].role = "user"
    /\ HistoryOfRequest[2].role = "assistant"

\* C29: once deltas of one kind have been processed in a turn, the text of
\* that kind shown in the in-flight message is those deltas, in the order
\* they came, each followed by one space, with the white space at both ends
\* trimmed; a thinking delta leaves the content text of every message as it
\* is, and a content delta the thinking text
RECURSIVE JoinDeltas(_, _)
JoinDeltas(chunks, kind) ==
    IF chunks = << >> THEN EmptyStr
    ELSE JoinDeltas(Front(chunks), kind) \o
         (IF chunks[Len(chunks)].type = kind
          THEN chunks[Len(chunks)].content[1] \o << SP >>
          ELSE EmptyStr)
DeltasOf(kind) == { i \in 1..Len(log) : log[i].type = kind }

ShownTextIsJoinedDeltas ==
    StreamingTurn
        => \A i \in InFlight :
              /\ DeltasOf("content") # {}
                    => messages[i].content = Trim(JoinDeltas(log, "content"))
              /\ DeltasOf("thinking") # {}
                    => messages[i].thinking = Some(Trim(JoinDeltas(log, "thinking")))
OtherTextUntouched ==
    (Len(log') = Len(log) + 1 /\ Len(messages') = Len(messages))
        => \A i \in 1..Len(messages) :
              /\ log'[Len(log')].type = "thinking" => messages'[i].content = messages[i].content
              /\ log'[Len(log')].type = "content" => messages'[i].thinking = messages[i].thinking

C29_DeltasJoinedWithSpaces == []ShownTextIsJoinedDeltas /\ [][OtherTextUntouched]_vars

\* content deltas "a", "a" and a thinking delta "a": the message shows "a a"
\* as content and "a" as thinking
C29_Witness ==
    /\ StreamingTurn
    /\ Len(log) = 3
    /\ Cardinality(DeltasOf("content")) = 2
    /\ Cardinality(DeltasOf("thinking")) = 1
    /\ \E i \in InFlight :
          /\ messages[i].content = << "a", SP, "a" >>
          /\ messages[i].thinking = Some(Str("a"))

\* C30: the message list is append-only: no step removes or reorders
\* messages, the welcome message stays first, and a sendMessage call appends
\* one user message, followed by at most one assistant message
SamePlace == \A i \in 1..Len(messages) :
                 /\ messages'[i].id = messages[i].id
                 /\ messages'[i].role = messages[i].role
                 /\ messages'[i].timestamp = messages[i].timestamp
Appended == SubSeq(messages', Len(messages) + 1, Len(messages'))
AppendsOfACall ==
    IF requests' # requests
    THEN /\ Len(Appended) \in {1, 2}
         /\ Appended[1].role = "user"
         /\ Len(Appended) = 2 => Appended[2].role = "assistant"
    ELSE \/ Appended = << >>
         \/ /\ Len(Appended) = 1
            /\ Appended[1].role = "assistant"
            /\ messages[Len(messages)].role = "user"

C30_MessageListIsAppendOnly ==
    [][/\ Len(messages') >= Len(messages)
       /\ SamePlace
       /\ messages'[1].id = WelcomeId
       /\ AppendsOfACall]_vars

\* two turns: the welcome message, then a user and an assistant message
\* for each call
C30_Witness ==
    /\ Len(messages) = 5
    /\ messages[1].id = WelcomeId
    /\ messages[2].role = "user"
    /\ messages[3].role = "assistant"
    /\ messages[4].role = "user"
    /\ messages[5].role = "assistant"
    /\ outcome = "end"

\* C31: when a request fails before any stream event was received, no
\* assistant message has been added for it: the last message of the list is
\* the user message of that request
FailedBeforeAnyEvent == pc = "done" /\ outcome = "transport" /\ log = << >>

C31_NoAssistantMessageOnEarlyFailure ==
    FailedBeforeAnyEvent => messages[Len(messages)].role = "user"

\* C32: every `error` event gives a failure the UI shows: the step that
\* takes an `error` event, whatever its error field holds, leaves
\* ChatState.error a non-empty string (the banner is rendered for a truthy
\* error only)
ErrorEventTaken == Len(log') = Len(log) + 1 /\ log'[Len(log')].type = "error"
BannerRendered(err) == IsSome(err) /\ Get(err) # ""

C32_ErrorEventIsShown == [][ErrorEventTaken => BannerRendered(error')]_vars

\* C33: a new turn clears the failure of the one before: from the moment
\* sendMessage appends the user message until that turn itself fails,
\* ChatState.error is null, so an error that is shown is the error of the
\* most recent turn
TurnHasFailed == pc = "done" /\ outcome \in {"error", "transport"}

C33_ErrorBelongsToLastTurn == IsSome(error) => TurnHasFailed

\* the first turn failed and the second is being read: no error is shown
C33_Witness ==
    /\ requests = 2
    /\ pc = "read"
    /\ error = None
    /\ Cardinality(StreamingMessages) = 2

\* C34: in non-streaming mode a successful response appends one assistant
\* message whose content, tool_calls, files_created and content_blocks are
\* those of the response, not marked as streaming, and ends the loading
\* state; a failed request appends no message, sets the error and ends the
\* loading state
IsMessageOf(msg, response) ==
    /\ msg.role = "assistant"
    /\ msg.content = response.content
    /\ msg.tool_calls = response.tool_calls
    /\ msg.files_created = response.files_created
    /\ msg.content_blocks = response.content_blocks
    /\ ~msg.isStreaming
RequestSettles == pc = "send" /\ pc' = "done"

C34_NonStreamingTurn ==
    [][RequestSettles =>
          /\ ~isLoading'
          /\ IF outcome' = "response"
             THEN /\ Len(messages') = Len(messages) + 1
                  /\ Front(messages') = messages
                  /\ \E response \in Responses :
                        IsMessageOf(messages'[Len(messages')], response)
             ELSE /\ messages' = messages
                  /\ IsSome(error')]_vars

\* a non-streaming turn was answered with tool calls, files and blocks
C34_Witness ==
    /\ ~StreamingTurn
    /\ outcome = "response"
    /\ ~isLoading
    /\ Len(messages) = 3
    /\ messages[3].tool_calls = Some(<< "instantiate_world" >>)
    /\ messages[3].content_blocks = Some(<< ToolUse(1), ToolResult(1), TextBlock(Str("a")) >>)

\* C35: clearError sets the error to null and leaves the message list and
\* isLoading as they are, also while a turn is streaming: a step that is no
\* step of a turn (it moves neither the call, the transport nor the clock)
\* is a clearError step
NoTurnStep ==
    UNCHANGED << now, pc, outcome, turnsLeft, exec, request, requests, locals, transport, log >>
C35_ClearErrorOnlyClearsError ==
    [][NoTurnStep => /\ error' = None
                     /\ messages' = messages
                     /\ isLoading' = isLoading]_vars

\* the error of a failed streaming turn was dismissed: the placeholder of
\* the turn is still in the list
C35_Witness ==
    /\ TurnHasFailed
    /\ error = None
    /\ ~isLoading
    /\ Len(messages) = 3
    /\ messages[3].role = "assistant"
=============================================================================
